---- MODULE Spec2Model ----
(***************************************************************************)
(* A model of term_windows (src/src/term_windows/term_windows.py):         *)
(* Dimensions / ConstrainedDimensions / OffsetDimensions, Window,          *)
(* TextWindow and the WindowController run loop.                           *)
(*                                                                         *)
(* Three groups of variables, one per specification:                       *)
(*   SpecDim   the constraint resolver applied to bounded inputs           *)
(*   SpecText  one TextWindow driven by keys, draws and terminal changes   *)
(*   Spec      the WindowController with its window stack and run loop     *)
(***************************************************************************)
EXTENDS Integers, Sequences, FiniteSets, TLC

VARIABLES
    base,            \* SpecDim: ConstrainedDimensions.base (a Dimensions)
    constraints,     \* SpecDim: ConstrainedDimensions.constraints
    resolved,        \* SpecDim: the four properties x, y, width, height read
    offsets,         \* SpecDim: OffsetDimensions.offsets over the same base
    projected,       \* SpecDim: the four properties of the OffsetDimensions read
    tw,              \* SpecText: a TextWindow object
    last_op,         \* SpecText: the operation last applied to tw
    term,            \* Spec: WindowController.term
    window_stack,    \* Spec: WindowController.window_stack, bottom first
    resize_pending,  \* Spec: WindowController._resize_pending
    extended,        \* Spec: the application subclasses Window and the controller
    pc,              \* Spec: where the caller / run() stands
    window,          \* Spec: run()'s local `window`, as a stack index (0: None)
    inkey,           \* Spec: run()'s local `key` ("" when inkey timed out)
    drain_i,         \* Spec: the index of _process_resize's for loop
    mode,            \* Spec: the terminal modes currently held
    ghost            \* Spec: history kept for stating properties

dimVars == <<base, constraints, resolved, offsets, projected>>

textVars == <<tw, last_op>>

ctlVars == <<term, window_stack, resize_pending, extended, pc, window, inkey,
             drain_i, mode, ghost>>

vars == <<base, constraints, resolved, offsets, projected, tw, last_op, term, window_stack,
          resize_pending, extended, pc, window, inkey, drain_i, mode, ghost>>

(***************************************************************************)
(* Numbers.  A Dimensions field is None, an int or a float (line 25-28).   *)
(* A float is kept exactly as a count of 1/Den, so 1.5 is FloatV(15) and    *)
(* 98.5 is FloatV(985).  The type tag is kept because _clamp dispatches on  *)
(* isinstance(val, float) and because min()/max() return one of their      *)
(* arguments unchanged.                                                    *)
(***************************************************************************)
Den == 10

None == [t |-> "none", v |-> 0]

IntV(n) == [t |-> "int", v |-> n]

FloatV(k) == [t |-> "float", v |-> k]

IsNone(a) == a.t = "none"

\* the value of a number in units of 1/Den
Scaled(a) == IF a.t = "int" THEN a.v * Den ELSE a.v

\* Python == on numbers: by value, 10 == 10.0
NumEq(a, b) == Scaled(a) = Scaled(b)

NumLe(a, b) == Scaled(a) <= Scaled(b)

\* a plausible slip: the difference truncated to an int, int(a - b)
NumSub_Truncating(a, b) == IntV((Scaled(a) - Scaled(b)) \div Den)

\* a - b: int when both are int, float otherwise
NumSub(a, b) ==
    IF a.t = "int" /\ b.t = "int" THEN IntV(a.v - b.v)
    ELSE FloatV(Scaled(a) - Scaled(b))

\* a + b
NumAdd(a, b) ==
    IF a.t = "int" /\ b.t = "int" THEN IntV(a.v + b.v)
    ELSE FloatV(Scaled(a) + Scaled(b))

\* min(a, b) of Python: a unless b < a
PyMin(a, b) == IF Scaled(b) < Scaled(a) THEN b ELSE a

\* max(a, b) of Python: a unless b > a
PyMax(a, b) == IF Scaled(b) > Scaled(a) THEN b ELSE a

\* round(p / q) of Python 3 for q > 0: to nearest, ties to even
Round(p, q) ==
    LET fl == p \div q
        r  == p % q
    IN  IF 2 * r < q THEN fl
        ELSE IF 2 * r > q THEN fl + 1
        ELSE IF fl % 2 = 0 THEN fl ELSE fl + 1

\* `a or 0` of Python: None and zero are falsy
OrZero(a) == IF IsNone(a) \/ Scaled(a) = 0 THEN IntV(0) ELSE a

(***************************************************************************)
(* ConstrainedDimensions                                                   *)
(***************************************************************************)
\* a plausible slip in _clamp: a float taken as an absolute value
clamp_NoScale(val, minval, maxval) == PyMax(minval, PyMin(maxval, val))

\* _clamp(val, minval, maxval)
clamp(val, minval, maxval) ==
    IF val.t = "float"
    THEN LET span == Scaled(NumSub(maxval, minval))
             r    == Round(Scaled(minval) * Den + val.v * span, Den * Den)
         IN  PyMax(minval, PyMin(maxval, IntV(r)))
    ELSE PyMax(minval, PyMin(maxval, val))

\* a plausible slip in width: the room computed from the clamped x
CD_width_ClampedX(b, c) ==
    IF IsNone(b.width) THEN IntV(c.width)
    ELSE LET cx == IF IsNone(b.x) THEN IntV(0)
                   ELSE clamp(b.x, IntV(c.x), IntV(c.x + c.width))
             clamped == clamp(b.width, IntV(0), NumSub(IntV(c.width), cx))
         IN  IF Scaled(clamped) = 0 THEN IntV(c.width) ELSE clamped

\* a plausible slip in width: `or self.constraints.width` left out
CD_width_NoFallback(b, c) ==
    IF IsNone(b.width) THEN IntV(c.width)
    ELSE clamp(b.width, IntV(0), NumSub(IntV(c.width), OrZero(b.x)))

\* ConstrainedDimensions.width
CD_width(b, c) ==
    IF IsNone(b.width) THEN IntV(c.width)
    ELSE LET clamped == clamp(b.width, IntV(0), NumSub(IntV(c.width), OrZero(b.x)))
         IN  IF Scaled(clamped) = 0 THEN IntV(c.width) ELSE clamped

\* ConstrainedDimensions.height
CD_height(b, c) ==
    IF IsNone(b.height) THEN IntV(c.height)
    ELSE LET clamped == clamp(b.height, IntV(0), NumSub(IntV(c.height), OrZero(b.y)))
         IN  IF Scaled(clamped) = 0 THEN IntV(c.height) ELSE clamped

\* a plausible slip in x: centred on the requested width, not the resolved
CD_x_RawWidth(b, c) ==
    IF IsNone(b.x)
    THEN IntV(c.x + (c.width - (IF IsNone(b.width) THEN c.width
                                ELSE Scaled(b.width) \div Den)) \div 2)
    ELSE clamp(b.x, IntV(c.x), IntV(c.x + c.width))

\* ConstrainedDimensions.x; base.x is None only when the width bound is an
\* int, so the centred branch is integer floor division
CD_x(b, c) ==
    IF IsNone(b.x) THEN IntV(c.x + (c.width - CD_width(b, c).v) \div 2)
    ELSE clamp(b.x, IntV(c.x), IntV(c.x + c.width))

\* ConstrainedDimensions.y
CD_y(b, c) ==
    IF IsNone(b.y) THEN IntV(c.y + (c.height - CD_height(b, c).v) \div 2)
    ELSE clamp(b.y, IntV(c.y), IntV(c.y + c.height))

\* the four properties of a ConstrainedDimensions read together
Resolve(b, c) ==
    [x |-> CD_x(b, c), y |-> CD_y(b, c),
     width |-> CD_width(b, c), height |-> CD_height(b, c)]

(***************************************************************************)
(* OffsetDimensions: base is a resolved rectangle, offsets are ints        *)
(***************************************************************************)
\* a plausible slip in OffsetDimensions.x: an absent base read as 0
OD_x_NoneAsZero(b, o) == NumAdd(OrZero(b.x), IntV(o.x))

\* OffsetDimensions.x
OD_x(b, o) == IF IsNone(b.x) THEN None ELSE NumAdd(b.x, IntV(o.x))

\* OffsetDimensions.y
OD_y(b, o) == IF IsNone(b.y) THEN None ELSE NumAdd(b.y, IntV(o.y))

\* a plausible slip in OffsetDimensions.width: the offset not applied
OD_width_NoOffset(b, o) == b.width

\* OffsetDimensions.width
OD_width(b, o) == IF IsNone(b.width) THEN None ELSE NumAdd(b.width, IntV(o.width))

\* OffsetDimensions.height
OD_height(b, o) == IF IsNone(b.height) THEN None ELSE NumAdd(b.height, IntV(o.height))

(***************************************************************************)
(* Window and TextWindow objects.  A window is a record of its attributes; *)
(* position is ConstrainedDimensions(base, constraints) and content is     *)
(* OffsetDimensions(position, offsets), both read on demand.  The title is *)
(* only ever printed and is left out.  scroll_pos is <<>> for None and     *)
(* <<n, d>> for the float n / d; child is <<>> for None and <<w>> for a    *)
(* window.  text is the source text as the lengths of its splitlines()     *)
(* lines, each line one unbroken word; _lines holds the lengths of the     *)
(* wrapped lines.                                                          *)
(***************************************************************************)
Rect(x, y, width, height) == [x |-> x, y |-> y, width |-> width, height |-> height]

\* a blessed Terminal as the window code uses it: its width and height
Terminal(width, height) == [width |-> width, height |-> height]

EscClose == "[Esc=Close]"

ScrollHelp == "[Arrows/PgUp/PgDn=Scroll, Esc=Close]"

\* window.position
Position(w) == Resolve(w.base, w.constraints)

\* window.content
Content(w) ==
    LET p == Position(w)
    IN  Rect(OD_x(p, w.offsets), OD_y(p, w.offsets),
             OD_width(p, w.offsets), OD_height(p, w.offsets))

\* self.content.height where the code needs an int (range(), slicing)
ContentHeight(w) == Content(w).height.v

\* int(n * 0.9)
NineTenths(n) == (9 * n) \div 10

\* textwrap.wrap(line, width) or [''] for a line of len characters without
\* whitespace: full rows of width characters and the remainder
WrapLine(len, width) ==
    IF len = 0 THEN <<0>>
    ELSE [i \in 1 .. ((len + width - 1) \div width) |->
             IF i * width <= len THEN width ELSE len - (i - 1) * width]

\* the loop of lines 376-378 over text.splitlines() or ['']
RECURSIVE WrapAll(_, _)
WrapAll(srclines, width) ==
    IF srclines = <<>> THEN <<>>
    ELSE WrapLine(Head(srclines), width) \o WrapAll(Tail(srclines), width)

SeqMax(s) == CHOOSE m \in {s[i] : i \in DOMAIN s} : \A i \in DOMAIN s : s[i] <= m

Max2(a, b) == IF a >= b THEN a ELSE b

Min2(a, b) == IF a <= b THEN a ELSE b

\* Window.handle_resize
Window_handle_resize(w) ==
    [w EXCEPT !.constraints = Rect(0, 0, w.term.width, w.term.height)]

\* max_content_width of TextWindow.handle_resize
MaxContentWidth(w) == NineTenths(w.term.width) + w.offsets.width - 2

\* textwrap.wrap raises ValueError for a width below 1
ResizeRaises(w) == w.kind = "TextWindow" /\ MaxContentWidth(w) <= 0

\* a plausible slip in the width fit: the minimum of 10 left out
FitWidth_NoFloor(max_win_width, max_line_length, offsets_width) ==
    Min2(max_win_width, max_line_length - offsets_width)

\* the window width fitted to the longest wrapped line (lines 382-385)
FitWidth(max_win_width, max_line_length, offsets_width) ==
    Max2(10, Min2(max_win_width, max_line_length - offsets_width))

\* the window height fitted to the number of wrapped lines (lines 386-389)
FitHeight(max_win_height, total_lines, offsets_height) ==
    Max2(6, Min2(max_win_height, total_lines - offsets_height))

\* TextWindow.handle_resize; when textwrap.wrap raises, the constraints are
\* already re-bound and _lines is already emptied
TextWindow_handle_resize(w) ==
    LET w1 == Window_handle_resize(w)
        max_win_width  == NineTenths(w1.constraints.width)
        max_win_height == NineTenths(w1.constraints.height)
        max_content_width == max_win_width + w1.offsets.width - 2
        src   == IF w1.text = <<>> THEN <<0>> ELSE w1.text
        lines == WrapAll(src, max_content_width)
        max_line_length == SeqMax(lines) + 2
    IN  IF max_content_width <= 0
        THEN [w1 EXCEPT !.lines = <<>>]
        ELSE [w1 EXCEPT
                !.lines = lines,
                !.base.width = IntV(FitWidth(max_win_width, max_line_length,
                                             w1.offsets.width)),
                !.base.height = IntV(FitHeight(max_win_height, Len(lines),
                                               w1.offsets.height)),
                !.redraw = TRUE]

\* window.handle_resize() as dispatched on the window's class
handle_resize(w) ==
    IF w.kind = "TextWindow" THEN TextWindow_handle_resize(w)
    ELSE Window_handle_resize(w)

\* the term setter: window.term = value
SetTerm(w, t) == handle_resize([w EXCEPT !.term = t])

\* Window.__init__ (and TextWindow.__init__ around it when kind is
\* "TextWindow"), up to and including the term setter and redraw = True
NewWindow(kind, text, width, height, border, x, y, t) ==
    LET w0 == [kind |-> kind,
               border |-> border,
               status_bar |-> EscClose,
               scroll_pos |-> <<>>,
               closed |-> FALSE,
               child |-> <<>>,
               controller |-> FALSE,
               base |-> Rect(x, y, width, height),
               constraints |-> Rect(0, 0, t.width, t.height),
               offsets |-> IF border THEN Rect(1, 1, -2, -2) ELSE Rect(0, 0, 0, 0),
               term |-> t,
               redraw |-> FALSE,
               text |-> text,
               scroll |-> 0,
               lines |-> <<>>]
    IN  [SetTerm(w0, t) EXCEPT !.redraw = TRUE]

\* Window.close
close(w) == [w EXCEPT !.closed = TRUE]

\* a plausible slip in Window.handle_input: every other key asks for a redraw
Window_handle_input_Redraws(w, key) ==
    IF key = "KEY_ESCAPE" THEN close(w) ELSE [w EXCEPT !.redraw = TRUE]

\* Window.handle_input
Window_handle_input(w, key) ==
    IF key = "KEY_ESCAPE" THEN close(w) ELSE w

\* a plausible slip in case 'KEY_DOWN': the bound test left out
ScrollDown_Unguarded(w, total_lines, max_content_height) ==
    [w EXCEPT !.scroll = w.scroll + 1, !.redraw = TRUE]

\* case 'KEY_DOWN' of TextWindow.handle_input
ScrollDown(w, total_lines, max_content_height) ==
    IF w.scroll < total_lines - max_content_height
    THEN [w EXCEPT !.scroll = w.scroll + 1, !.redraw = TRUE]
    ELSE w

\* case 'KEY_UP'
ScrollUp(w, total_lines, max_content_height) ==
    IF w.scroll > 0
    THEN [w EXCEPT !.scroll = w.scroll - 1, !.redraw = TRUE]
    ELSE w

\* case 'KEY_PGDOWN'
PageDown(w, total_lines, max_content_height) ==
    IF w.scroll < total_lines - max_content_height
    THEN [w EXCEPT !.scroll = Min2(w.scroll + max_content_height,
                                   total_lines - max_content_height),
                   !.redraw = TRUE]
    ELSE w

\* case 'KEY_PGUP'
PageUp(w, total_lines, max_content_height) ==
    IF w.scroll > 0
    THEN [w EXCEPT !.scroll = Max2(w.scroll - max_content_height, 0),
                   !.redraw = TRUE]
    ELSE w

\* TextWindow.handle_input
TextWindow_handle_input(w, key) ==
    LET max_content_height == ContentHeight(w)
        total_lines == Len(w.lines)
    IN  IF total_lines > max_content_height
        THEN CASE key = "KEY_DOWN"   -> ScrollDown(w, total_lines, max_content_height)
               [] key = "KEY_UP"     -> ScrollUp(w, total_lines, max_content_height)
               [] key = "KEY_PGDOWN" -> PageDown(w, total_lines, max_content_height)
               [] key = "KEY_PGUP"   -> PageUp(w, total_lines, max_content_height)
               [] OTHER -> Window_handle_input(w, key)
        ELSE Window_handle_input(w, key)

\* window.handle_input(key) as dispatched on the window's class
handle_input(w, key) ==
    IF w.kind = "TextWindow" THEN TextWindow_handle_input(w, key)
    ELSE Window_handle_input(w, key)

\* Window.draw: the state it leaves (what it prints is not kept)
Window_draw(w) == [w EXCEPT !.redraw = FALSE]

\* Window.draw, the side borders: scroll_row is None or
\* int(scroll_pos * content.height).  scroll_pos is the double n / d; for
\* 0 <= n <= d and a content height below 22 the double product truncates
\* to the exact quotient (n * height) \div d.
scroll_row(w) ==
    IF w.scroll_pos = <<>> THEN None
    ELSE IntV((w.scroll_pos[1] * ContentHeight(w)) \div w.scroll_pos[2])

\* the right border character printed for a content row
right_char(w, row) == IF IntV(row) = scroll_row(w) THEN "=" ELSE "|"

\* the rows range(content.height) of a bordered window's side borders (a
\* window without border returns before printing anything)
border_rows(w) == IF w.border THEN 0 .. ContentHeight(w) - 1 ELSE {}

\* the content rows whose right border is printed as the thumb
thumb_rows(w) == {row \in border_rows(w) : right_char(w, row) = "="}

\* TextWindow.draw
TextWindow_draw(w) ==
    LET max_content_height == ContentHeight(w)
        total_lines == Len(w.lines)
        below_the_fold == total_lines - max_content_height
    IN  Window_draw(
          IF below_the_fold > 0
          THEN [w EXCEPT !.scroll_pos = <<w.scroll, below_the_fold>>,
                         !.status_bar = ScrollHelp]
          ELSE [w EXCEPT !.scroll_pos = <<>>, !.status_bar = EscClose])

\* window.draw() as dispatched on the window's class
draw(w) ==
    IF w.kind = "TextWindow" THEN TextWindow_draw(w) ELSE Window_draw(w)

(***************************************************************************)
(* SpecDim: the resolver over every rectangle-spec and parent rectangle    *)
(* of the bounded sets below.                                              *)
(***************************************************************************)
MaxCoord == 4

\* field values: None, ints from below zero to beyond the parent, and the
\* fractions -0.5, 0.0, 0.1, 0.5, 0.8, 1.5, 2.0
FieldValues ==
    {None} \cup {IntV(n) : n \in (-1 .. MaxCoord + 1) \cup {20}}
           \cup {FloatV(k) : k \in {-5, 0, 1, 5, 8, 15, 20}}

PosValues == {None} \cup {IntV(n) : n \in {-1, 0, 2, MaxCoord + 1, 70}}
                    \cup {FloatV(k) : k \in {-5, 0, 1, 5, 15}}

\* the offsets of OffsetDimensions: those of a bordered window, those of a
\* borderless one, and a mix of signs
OffsetRects == {Rect(1, 1, -2, -2), Rect(0, 0, 0, 0), Rect(-1, 2, 3, -1)}

\* the offsets while no OffsetDimensions is built
NoOffsets == Rect(0, 0, 0, 0)

Unresolved == [x |-> None, y |-> None, width |-> None, height |-> None]

\* the values of the variables a specification does not use
IdleDim ==
    /\ base = Unresolved /\ constraints = Unresolved /\ resolved = Unresolved
    /\ offsets = NoOffsets /\ projected = Unresolved

IdleText == tw = <<>> /\ last_op = "none"

IdleCtl ==
    /\ term = <<>> /\ window_stack = <<>> /\ resize_pending = FALSE
    /\ extended = FALSE /\ pc = "none" /\ window = 0 /\ inkey = ""
    /\ drain_i = 0 /\ mode = {} /\ ghost = <<>>

InitDim ==
    /\ base \in [x : PosValues, y : {None, IntV(1), IntV(20)},
                 width : FieldValues,
                 height : {None, IntV(2), IntV(10), FloatV(20)}]
    /\ constraints \in [x : {0, 3}, y : {0}, width : {MaxCoord, 10, 80, 100},
                        height : {MaxCoord, 24}]
    /\ resolved = Unresolved
    /\ offsets = NoOffsets
    /\ projected = Unresolved
    /\ IdleText /\ IdleCtl

\* reading position.x, .y, .width, .height
ReadResolved ==
    /\ resolved = Unresolved
    /\ projected = Unresolved
    /\ resolved' = Resolve(base, constraints)
    /\ UNCHANGED <<base, constraints, offsets, projected>>
    /\ UNCHANGED <<textVars, ctlVars>>

\* a Dimensions is mutable: assigning base.x / base.width (as
\* TextWindow.handle_resize does for width) invalidates what was read
SetBase ==
    /\ resolved # Unresolved \/ projected # Unresolved
    /\ \E f \in {"x", "width"} :
         \E val \in {None, IntV(0), IntV(MaxCoord)} :
            /\ base[f] # val
            /\ base' = [base EXCEPT ![f] = val]
    /\ resolved' = Unresolved
    /\ offsets' = NoOffsets
    /\ projected' = Unresolved
    /\ UNCHANGED constraints
    /\ UNCHANGED <<textVars, ctlVars>>

\* OffsetDimensions(base, offsets) built over the same Dimensions and its
\* x, y, width and height read
ReadProjected ==
    /\ resolved = Unresolved
    /\ projected = Unresolved
    /\ \E o \in OffsetRects :
          /\ offsets' = o
          /\ projected' = Rect(OD_x(base, o), OD_y(base, o),
                               OD_width(base, o), OD_height(base, o))
    /\ UNCHANGED <<base, constraints, resolved>>
    /\ UNCHANGED <<textVars, ctlVars>>

NextDim == ReadResolved \/ ReadProjected \/ SetBase

SpecDim == InitDim /\ [][NextDim]_vars

(***************************************************************************)
(* SpecText: one TextWindow, as a caller (or a test) drives it: keys,      *)
(* draw() and a change of terminal through the term setter.  SpecFixed is  *)
(* the same window with the terminal held fixed.                           *)
(***************************************************************************)
MaxLines == 2

LineLens == {0, 20}

Texts == UNION {[1 .. n -> LineLens] : n \in 0 .. MaxLines}

TextTerms == {Terminal(tw_, th_) : tw_ \in {5, 12, 20}, th_ \in {6, 10}}

Keys == {"KEY_DOWN", "KEY_UP", "KEY_PGDOWN", "KEY_PGUP", "KEY_ESCAPE", "KEY_ENTER"}

\* TextWindow(text, border=b, x=x, term=t) for every constructor call that
\* returns (on a terminal too narrow to wrap for, __init__ raises)
InitText ==
    /\ \E text \in Texts, b \in BOOLEAN, x \in {None, IntV(3)}, t \in TextTerms :
          /\ NineTenths(t.width) + (IF b THEN -2 ELSE 0) - 2 > 0
          /\ tw = NewWindow("TextWindow", text, None, None, b, x, None, t)
    /\ last_op = "init"
    /\ IdleDim /\ IdleCtl

\* a window is used until it is closed or its resize handler has raised
Live == ~tw.closed /\ last_op # "resize_raised"

\* tw.handle_input(key)
TextKey ==
    /\ Live
    /\ \E key \in Keys : tw' = handle_input(tw, key)
    /\ last_op' = "key"
    /\ UNCHANGED <<dimVars, ctlVars>>

\* tw.draw()
TextDraw ==
    /\ Live
    /\ tw' = draw(tw)
    /\ last_op' = "draw"
    /\ UNCHANGED <<dimVars, ctlVars>>

\* tw.term = Terminal of another size; the setter runs handle_resize, which
\* raises on a terminal too narrow to wrap for
TextResize ==
    /\ Live
    /\ \E t \in TextTerms :
          /\ tw' = SetTerm(tw, t)
          /\ last_op' = IF ResizeRaises([tw EXCEPT !.term = t])
                         THEN "resize_raised" ELSE "resize"
    /\ UNCHANGED <<dimVars, ctlVars>>

NextFixed == TextKey \/ TextDraw

NextText == TextKey \/ TextDraw \/ TextResize

SpecFixed == InitText /\ [][NextFixed]_vars

SpecText == InitText /\ [][NextText]_vars

(***************************************************************************)
(* WindowController.  The stack holds the window objects themselves.      *)
(* Two applications are modelled.  With extended = FALSE the caller pushes *)
(* Window and TextWindow objects onto a WindowController.  With extended = *)
(* TRUE it pushes windows of kind "Custom", a user subclass of Window (the *)
(* class is written to be subclassed): its handle_input opens a modal      *)
(* child on KEY_ENTER, its handle_input, draw and tick may fail, and the   *)
(* controller overrides on_tick with a hook that may fail.  A resize       *)
(* notification (SIGWINCH) may arrive between any two steps of the loop.   *)
(***************************************************************************)
MaxWin == 2

TermSizes == {Terminal(80, 24), Terminal(12, 6), Terminal(5, 6)}

AllModes == {"fullscreen", "cbreak", "hidden_cursor"}

\* the windows a caller constructs (against an 80x24 terminal) and pushes:
\* Window(width=50, height=20), TextWindow(one 30-character line) and a
\* borderless full-screen window of a user subclass
NewWindows ==
    {NewWindow("Window", <<>>, IntV(50), IntV(20), TRUE, None, None, Terminal(80, 24)),
     NewWindow("TextWindow", <<30>>, None, None, TRUE, None, None, Terminal(80, 24)),
     NewWindow("Custom", <<>>, None, None, FALSE, None, None, Terminal(80, 24))}

Top(stack) == stack[Len(stack)]

\* a plausible slip in current_window: window_stack[0] for window_stack[-1]
current_window_Bottom(stack) == IF stack = <<>> THEN 0 ELSE 1

\* current_window(), as a stack index (0: None)
current_window(stack) == Len(stack)

SetTop(stack, w) == [stack EXCEPT ![Len(stack)] = w]

\* a plausible slip in push_window: the term setter (and with it the
\* resize handler) left out
push_window_NoBind(stack, w, t) ==
    Append(stack, [w EXCEPT !.redraw = TRUE, !.controller = TRUE])

\* WindowController.push_window, for a window whose resize handler returns
push_window(stack, w, t) ==
    Append(stack, [SetTerm(w, t) EXCEPT !.redraw = TRUE, !.controller = TRUE])

\* a plausible slip in pop_window: the parent is not marked for redraw
pop_window_NoRedraw(stack) ==
    IF stack = <<>> THEN stack
    ELSE LET rest == SubSeq(stack, 1, Len(stack) - 1)
         IN  IF rest = <<>> THEN rest
             ELSE SetTop(rest, [Top(rest) EXCEPT !.child = <<>>])

\* WindowController.pop_window: the stack it leaves
pop_window(stack) ==
    IF stack = <<>> THEN stack
    ELSE LET rest == SubSeq(stack, 1, Len(stack) - 1)
         IN  IF rest = <<>> THEN rest
             ELSE SetTop(rest, [Top(rest) EXCEPT !.child = <<>>, !.redraw = TRUE])

\* a plausible slip in _redraw_top: the redraw flag not looked at
Draws_Always(stack, force) == stack # <<>>

\* whether _redraw_top(force) calls top.draw()
Draws(stack, force) == stack # <<>> /\ (force \/ Top(stack).redraw)

\* WindowController._redraw_top
redraw_top(stack, force) ==
    IF Draws(stack, force)
    THEN SetTop(stack, draw([Top(stack) EXCEPT !.redraw = FALSE]))
    ELSE stack

\* handle_input of the user subclass: KEY_ENTER opens a modal child
\* (self.child = Window(term=self.term)), other keys go to Window.handle_input
Custom_handle_input(w, k) ==
    IF k = "KEY_ENTER"
    THEN [w EXCEPT !.child =
            <<NewWindow("Window", <<>>, None, None, TRUE, None, None, w.term)>>]
    ELSE Window_handle_input(w, k)

\* window.handle_input(key) for each class of window on the stack
stack_handle_input(w, k) ==
    IF w.kind = "Custom" THEN Custom_handle_input(w, k) ELSE handle_input(w, k)

\* a plausible slip in _handle_key: `window.child = None` left out
handle_key_KeepsChild(stack, i, k, t) ==
    LET w1 == stack_handle_input(stack[i], k)
        s1 == [stack EXCEPT ![i] = w1]
    IN  IF w1.closed THEN pop_window(s1)
        ELSE IF w1.child # <<>> THEN push_window(s1, w1.child[1], t)
        ELSE s1

\* WindowController._handle_key(window, key): the stack it leaves, with
\* window the stack index of the window run() read before polling
handle_key(stack, i, k, t) ==
    LET w1 == stack_handle_input(stack[i], k)
        s1 == [stack EXCEPT ![i] = w1]
    IN  IF w1.closed THEN pop_window(s1)
        ELSE IF w1.child # <<>>
        THEN [push_window(s1, w1.child[1], t) EXCEPT ![i].child = <<>>]
        ELSE s1

\* a plausible slip in run(): the `break` on an empty stack left out
AfterKey_NoBreak(before, after) == "redraw"

\* a plausible slip in run(): `continue` after a key that popped a window
AfterKey_SkipIteration(before, after) ==
    IF after = <<>> THEN "returned"
    ELSE IF Len(after) < Len(before) THEN "loop_top" ELSE "redraw"

\* where run() goes on after _handle_key: `break` on an empty stack, else
\* on to _redraw_top()
AfterKey(before, after) == IF after = <<>> THEN "returned" ELSE "redraw"

\* a plausible slip: the terminal modes entered without a `with` block, so
\* that leaving run() does not restore them
ExitWith_Leak(m) == m

\* leaving the `with` block of run(), normally or by an exception
ExitWith(m) == {}

\* a call run() makes: handle_input(key), draw() or tick() on the window
\* at stack index `on`, or on_tick(), with the stack depth at the call
Call(op, on, depth, k) == [op |-> op, on |-> on, depth |-> depth, key |-> k]

NoCall == Call("none", 0, 0, "")

\* notifications are counted up to this many
MaxNotes == 2

NoHistory ==
    [started |-> 0,        \* the stack depth N when run() entered the loop
     escapes |-> 0,        \* escape keys delivered to Window / TextWindow
                           \* objects by inkey, counted up to MaxWin + 1
     polled |-> FALSE,     \* inkey has been called
     drew |-> FALSE,       \* a window's draw() has been called
     covered |-> "none",   \* the redraw flag the new top had before the pop
                           \* just made ("none" once the loop has gone on)
     raised_by |-> "none", \* what raised the exception that ended run()
     called |-> NoCall,    \* the call the last step of run() made
     notes |-> 0,          \* resize notifications since the flag was last
                           \* cleared, counted up to MaxNotes
     coalesced |-> 0]      \* the notifications the drain in progress took up

InitCtl ==
    /\ term \in {Terminal(80, 24), Terminal(12, 6)}
    /\ window_stack = <<>>
    /\ resize_pending = FALSE
    /\ extended \in BOOLEAN
    /\ pc = "setup"
    /\ window = 0
    /\ inkey = ""
    /\ drain_i = 0
    /\ mode = {}
    /\ ghost = NoHistory
    /\ IdleDim /\ IdleText

Running == pc \notin {"setup", "config_error", "returned", "raised"}

\* run() ends by an exception raised inside the `with` block
Raise(by, on, k) ==
    /\ pc' = "raised"
    /\ mode' = ExitWith(mode)
    /\ ghost' = [ghost EXCEPT !.raised_by = by,
                              !.called = Call(by, on, Len(window_stack), k)]

\* _handle_sigwinch: the terminal has a new size
Sigwinch ==
    /\ pc \in {"setup"} \/ Running
    /\ \E t \in TermSizes :
          /\ t # term
          /\ term' = t
    /\ resize_pending' = TRUE
    /\ ghost' = [ghost EXCEPT !.notes = Min2(@ + 1, MaxNotes)]
    /\ UNCHANGED <<window_stack, extended, pc, window, inkey, drain_i, mode>>
    /\ UNCHANGED <<dimVars, textVars>>

\* the caller's push_window(window) before run(); when the window's resize
\* handler raises, the exception reaches the caller before the append
PushWindow ==
    /\ pc = "setup"
    /\ Len(window_stack) < MaxWin
    /\ \E w \in NewWindows :
          /\ extended <=> w.kind = "Custom"
          /\ ~ResizeRaises([w EXCEPT !.term = term])
          /\ window_stack' = push_window(window_stack, w, term)
    /\ UNCHANGED <<term, resize_pending, extended, pc, window, inkey, drain_i, mode,
                   ghost>>
    /\ UNCHANGED <<dimVars, textVars>>

\* the caller's pop_window() before run()
PopWindow ==
    /\ pc = "setup"
    /\ window_stack # <<>>
    /\ window_stack' = pop_window(window_stack)
    /\ ghost' = [ghost EXCEPT !.covered =
                    IF Len(window_stack) = 1 THEN "none"
                    ELSE IF window_stack[Len(window_stack) - 1].redraw
                         THEN "set" ELSE "clear"]
    /\ UNCHANGED <<term, resize_pending, extended, pc, window, inkey, drain_i, mode>>
    /\ UNCHANGED <<dimVars, textVars>>

\* a plausible slip in run(): the terminal modes entered before the check
RunEmpty_ModeFirst ==
    /\ pc = "setup"
    /\ window_stack = <<>>
    /\ pc' = "config_error"
    /\ mode' = AllModes
    /\ UNCHANGED <<term, window_stack, resize_pending, extended, window, inkey,
                   drain_i, ghost>>
    /\ UNCHANGED <<dimVars, textVars>>

\* run() with no window pushed: RuntimeError before the `with` block
RunEmpty ==
    /\ pc = "setup"
    /\ window_stack = <<>>
    /\ pc' = "config_error"
    /\ UNCHANGED <<term, window_stack, resize_pending, extended, window, inkey,
                   drain_i, mode, ghost>>
    /\ UNCHANGED <<dimVars, textVars>>

\* run(): entering fullscreen, cbreak and hidden_cursor
RunStart ==
    /\ pc = "setup"
    /\ window_stack # <<>>
    /\ mode' = AllModes
    /\ pc' = "initial_redraw"
    /\ ghost' = [ghost EXCEPT !.started = Len(window_stack)]
    /\ UNCHANGED <<term, window_stack, resize_pending, extended, window, inkey, drain_i>>
    /\ UNCHANGED <<dimVars, textVars>>

\* a call of _redraw_top(force) at pc, going on to next; the draw() of a
\* user subclass may raise
RedrawStep(at, force, next) ==
    /\ pc = at
    /\ \/ /\ window_stack' = redraw_top(window_stack, force)
          /\ pc' = next
          /\ ghost' = [ghost EXCEPT
                !.drew = @ \/ Draws(window_stack, force),
                !.called = IF Draws(window_stack, force)
                           THEN Call("draw", Len(window_stack), Len(window_stack), "")
                           ELSE NoCall]
          /\ UNCHANGED mode
       \/ /\ Draws(window_stack, force)
          /\ Top(window_stack).kind = "Custom"
          /\ Raise("draw", Len(window_stack), "")
          /\ window_stack' = SetTop(window_stack,
                                    [Top(window_stack) EXCEPT !.redraw = FALSE])
    /\ UNCHANGED <<term, resize_pending, extended, window, inkey, drain_i>>
    /\ UNCHANGED <<dimVars, textVars>>

\* line 457: self._redraw_top(force=True)
InitialRedraw == RedrawStep("initial_redraw", TRUE, "loop_top")

\* lines 459-460: while self.window_stack: if self._resize_pending:
LoopTop ==
    /\ pc = "loop_top"
    /\ IF window_stack = <<>>
       THEN pc' = "returned" /\ mode' = ExitWith(mode)
       ELSE pc' = (IF resize_pending THEN "drain_clear" ELSE "poll")
            /\ UNCHANGED mode
    /\ ghost' = [ghost EXCEPT !.called = NoCall]
    /\ UNCHANGED <<term, window_stack, resize_pending, extended, window, inkey,
                   drain_i>>
    /\ UNCHANGED <<dimVars, textVars>>

\* a plausible slip in _process_resize: the flag left set
ClearPending_Never(flag) == flag

\* _process_resize, line 493: self._resize_pending = False
ClearPending(flag) == FALSE

\* a plausible slip in _process_resize: only the top window re-bound
DrainFirst_TopOnly(stack) == Len(stack)

\* _process_resize, line 495: the for loop starts at the bottom of the stack
DrainFirst(stack) == 1

\* _process_resize, lines 493-494: the flag is cleared, the screen cleared
DrainClear ==
    /\ pc = "drain_clear"
    /\ resize_pending' = ClearPending(resize_pending)
    /\ drain_i' = DrainFirst(window_stack)
    /\ pc' = "drain_rebind"
    /\ ghost' = [ghost EXCEPT !.notes = 0, !.coalesced = ghost.notes]
    /\ UNCHANGED <<term, window_stack, extended, window, inkey, mode>>
    /\ UNCHANGED <<dimVars, textVars>>

\* _process_resize, lines 495-497: one turn of the loop over the stack;
\* win.term = self.term raises when the window cannot wrap its text
DrainRebind ==
    /\ pc = "drain_rebind"
    /\ IF drain_i > Len(window_stack)
       THEN /\ pc' = "drain_redraw"
            /\ drain_i' = 0
            /\ UNCHANGED <<window_stack, mode, ghost>>
       ELSE IF ResizeRaises([window_stack[drain_i] EXCEPT !.term = term])
       THEN /\ window_stack' = [window_stack EXCEPT
                                  ![drain_i] = SetTerm(window_stack[drain_i], term)]
            /\ Raise("resize", drain_i, "")
            /\ drain_i' = 0
       ELSE /\ window_stack' = [window_stack EXCEPT
                  ![drain_i] = [SetTerm(window_stack[drain_i], term)
                                  EXCEPT !.redraw = TRUE]]
            /\ drain_i' = drain_i + 1
            /\ UNCHANGED <<pc, mode, ghost>>
    /\ UNCHANGED <<term, resize_pending, extended, window, inkey>>
    /\ UNCHANGED <<dimVars, textVars>>

\* _process_resize, line 498: self._redraw_top(force=True)
DrainRedraw == RedrawStep("drain_redraw", TRUE, "poll")

\* lines 463-466: window = self.current_window(); key = self.term.inkey(...)
Poll ==
    /\ pc = "poll"
    /\ window' = current_window(window_stack)
    /\ \E k \in Keys \cup {""} :
          \* the stack is kept within MaxWin: no child is asked for beyond it
          /\ k = "KEY_ENTER" /\ window_stack # <<>> /\ Top(window_stack).kind = "Custom"
                => Len(window_stack) < MaxWin
          /\ inkey' = k
          /\ pc' = (IF k # "" /\ window' # 0 THEN "dispatch" ELSE "redraw")
          /\ ghost' = [ghost EXCEPT !.polled = TRUE, !.covered = "none",
                          !.called = NoCall, !.coalesced = 0,
                          !.escapes = IF k = "KEY_ESCAPE" /\ ~extended
                                      THEN Min2(@ + 1, MaxWin + 1) ELSE @]
    /\ UNCHANGED <<term, window_stack, resize_pending, extended, drain_i, mode>>
    /\ UNCHANGED <<dimVars, textVars>>

\* lines 467-469: self._handle_key(window, key) and the break on an empty
\* stack; the handle_input of a user subclass may raise
Dispatch ==
    /\ pc = "dispatch"
    /\ \/ /\ window_stack' = handle_key(window_stack, window, inkey, term)
          /\ pc' = AfterKey(window_stack, window_stack')
          /\ IF pc' = "returned" THEN mode' = ExitWith(mode) ELSE UNCHANGED mode
          /\ ghost' = [ghost EXCEPT
                !.covered =
                   IF Len(window_stack') = Len(window_stack) - 1 /\ window_stack' # <<>>
                   THEN (IF window_stack[Len(window_stack) - 1].redraw
                         THEN "set" ELSE "clear")
                   ELSE @,
                !.called = Call("handle_input", window, Len(window_stack), inkey)]
       \/ /\ window_stack[window].kind = "Custom"
          /\ Raise("handle_input", window, inkey)
          /\ UNCHANGED window_stack
    /\ window' = 0
    /\ inkey' = ""
    /\ UNCHANGED <<term, resize_pending, extended, drain_i>>
    /\ UNCHANGED <<dimVars, textVars>>

\* line 471: self._redraw_top()
Redraw == RedrawStep("redraw", FALSE, "tick")

\* lines 473-474: self.window_stack[-1].tick(); Window.tick does nothing,
\* the tick of a user subclass may call self.close() and may raise
Tick ==
    /\ pc = "tick"
    /\ \/ /\ pc' = (IF window_stack # <<>> THEN "on_tick" ELSE "loop_top")
          /\ ghost' = [ghost EXCEPT !.called =
                IF window_stack # <<>>
                THEN Call("tick", Len(window_stack), Len(window_stack), "")
                ELSE NoCall]
          /\ UNCHANGED mode
          /\ UNCHANGED window_stack
       \/ /\ window_stack # <<>>
          /\ Top(window_stack).kind = "Custom"
          /\ ~Top(window_stack).closed
          /\ window_stack' = SetTop(window_stack, close(Top(window_stack)))
          /\ pc' = "on_tick"
          /\ ghost' = [ghost EXCEPT !.called =
                Call("tick", Len(window_stack), Len(window_stack), "")]
          /\ UNCHANGED mode
       \/ /\ window_stack # <<>>
          /\ Top(window_stack).kind = "Custom"
          /\ Raise("tick", Len(window_stack), "")
          /\ UNCHANGED window_stack
    /\ UNCHANGED <<term, resize_pending, extended, window, inkey, drain_i>>
    /\ UNCHANGED <<dimVars, textVars>>

\* lines 475-477: self.on_tick() and time.sleep(self.idle_sleep); the base
\* on_tick does nothing, an overriding hook may raise
OnTick ==
    /\ pc = "on_tick"
    /\ \/ /\ pc' = "loop_top"
          /\ ghost' = [ghost EXCEPT !.called = Call("on_tick", 0, Len(window_stack), "")]
          /\ UNCHANGED mode
       \/ /\ extended
          /\ Raise("on_tick", 0, "")
    /\ UNCHANGED <<term, window_stack, resize_pending, extended, window, inkey, drain_i>>
    /\ UNCHANGED <<dimVars, textVars>>

Next ==
    \/ Sigwinch \/ PushWindow \/ PopWindow \/ RunEmpty \/ RunStart
    \/ InitialRedraw \/ LoopTop \/ DrainClear \/ DrainRebind \/ DrainRedraw
    \/ Poll \/ Dispatch \/ Redraw \/ Tick \/ OnTick

Spec == InitCtl /\ [][Next]_vars

\* the steps of run() itself: once entered, run() goes on executing (the
\* poll returns after inkey_timeout, the sleep after idle_sleep)
RunStep ==
    \/ InitialRedraw \/ LoopTop \/ DrainClear \/ DrainRebind \/ DrainRedraw
    \/ Poll \/ Dispatch \/ Redraw \/ Tick \/ OnTick

\* Spec with run() not stopping of itself; which key arrives, whether a
\* hook fails and when the terminal is resized stay open
FairSpec == Spec /\ WF_vars(RunStep)

(***************************************************************************)
(* Properties of the constraint resolver (SpecDim)                         *)
(***************************************************************************)
\* C1: every resolved rectangle lies inside its parent: x >= constraints.x
\* and x + width <= constraints.x + constraints.width, and the same for y
\* and height.
C1_Containment ==
    resolved # Unresolved =>
       /\ Scaled(resolved.x) >= constraints.x * Den
       /\ Scaled(resolved.x) + Scaled(resolved.width)
             <= (constraints.x + constraints.width) * Den
       /\ Scaled(resolved.y) >= constraints.y * Den
       /\ Scaled(resolved.y) + Scaled(resolved.height)
             <= (constraints.y + constraints.height) * Den

\* max(lo, min(hi, v)) on integers
Clamped(v, lo, hi) == Max2(lo, Min2(hi, v))

\* the unresolved base.x and base.y in units of 1/Den, 0 when absent
RawX == IF IsNone(base.x) THEN 0 ELSE Scaled(base.x)

RawY == IF IsNone(base.y) THEN 0 ELSE Scaled(base.y)

\* the room left of the parent beyond the unresolved x / y, in 1/Den
RoomX == constraints.width * Den - RawX

RoomY == constraints.height * Den - RawY

\* C12 as stated: for an integer base.width the resolved width is
\* clamp(base.width, 0, constraints.width - base.x) with the unresolved
\* base.x (0 when absent), and the same for height with base.y;
\* (x=70, width=20) in width 80 gives 10, (y=20, height=10) in height 24
\* gives 4.
C12_SizeIsClampLiteral ==
    resolved # Unresolved =>
       /\ base.width.t = "int" =>
             Scaled(resolved.width) = Clamped(Scaled(base.width), 0, RoomX)
       /\ base.height.t = "int" =>
             Scaled(resolved.height) = Clamped(Scaled(base.height), 0, RoomY)

\* C12 as amended: for an integer base.width the resolved width is
\* clamp(base.width, 0, constraints.width - base.x) with the unresolved
\* base.x (0 when absent) unless that value is 0, and is then
\* constraints.width; the same for height with base.y; (x=70, width=20) in
\* width 80 gives 10, (y=20, height=10) in height 24 gives 4.
C12_SizeIsClampOfRawPosition ==
    resolved # Unresolved =>
       /\ base.width.t = "int" =>
             LET cl == Clamped(Scaled(base.width), 0, RoomX)
             IN  Scaled(resolved.width) =
                    IF cl = 0 THEN constraints.width * Den ELSE cl
       /\ base.height.t = "int" =>
             LET cl == Clamped(Scaled(base.height), 0, RoomY)
             IN  Scaled(resolved.height) =
                    IF cl = 0 THEN constraints.height * Den ELSE cl
       /\ (base.x = IntV(70) /\ base.width = IntV(20) /\ constraints.width = 80)
             => resolved.width = IntV(10)
       /\ (base.y = IntV(20) /\ base.height = IntV(10) /\ constraints.height = 24)
             => resolved.height = IntV(4)

\* C12 witness: (x=70, width=20) and (y=20, height=10) resolved against
\* (0, 0, 80, 24) to width 10 and height 4
C12_Width10Height4 ==
    /\ base = Rect(IntV(70), IntV(20), IntV(20), IntV(10))
    /\ constraints = Rect(0, 0, 80, 24)
    /\ resolved.width = IntV(10)
    /\ resolved.height = IntV(4)

\* min + round(f * (max - min)) clamped into [min, max], in units of 1/Den,
\* for a fraction of f / Den and bounds given in 1/Den
Fraction(f, lo, hi) ==
    Clamped(Round(lo * Den + f * (hi - lo), Den * Den) * Den, lo, hi)

Requested(val, room) ==
    IF val.t = "float" THEN Round(val.v * room, Den * Den) * Den ELSE Scaled(val)

\* C14: when base.x is a fraction the room for the width is
\* constraints.width - base.x with the fraction as written, and a width
\* that exceeds the room resolves to that room, not rounded:
\* (x=1.5, width=2.0) in width 100 gives 98.5.
C14_RoomKeepsRawFraction ==
    (resolved # Unresolved /\ base.x.t = "float" /\ base.x.v # 0
        /\ ~IsNone(base.width)) =>
       /\ (RoomX > 0 /\ Requested(base.width, RoomX) > RoomX)
             => resolved.width = FloatV(constraints.width * Den - base.x.v)
       /\ (base.x = FloatV(15) /\ base.width = FloatV(20) /\ constraints.width = 100)
             => resolved.width = FloatV(985)

\* C14 witness: (x=1.5, width=2.0) resolved against width 100 to 98.5
C14_Width98AndAHalf ==
    /\ base.x = FloatV(15) /\ base.width = FloatV(20)
    /\ constraints.width = 100
    /\ resolved.width = FloatV(985)

\* C15: an absent base.x resolves to constraints.x + floor((constraints.width
\* - resolved width) / 2), the resolved width being the clamped or
\* fallen-back one; the same for an absent base.y with heights.
C15_AbsentIsCentred ==
    resolved # Unresolved =>
       /\ IsNone(base.x) =>
             /\ resolved.width.t = "int"
             /\ resolved.x =
                   IntV(constraints.x
                        + (constraints.width - resolved.width.v) \div 2)
       /\ IsNone(base.y) =>
             /\ resolved.height.t = "int"
             /\ resolved.y =
                   IntV(constraints.y
                        + (constraints.height - resolved.height.v) \div 2)

\* C15 witness: an absent x with a requested width of 20 in a parent of
\* width 10 at x = 3: the width resolves to 10 and x to 3; an absent y with
\* height 10 in height 24 resolves to 7
C15_CentredOnResolvedWidth ==
    /\ IsNone(base.x) /\ base.width = IntV(20)
    /\ constraints.x = 3 /\ constraints.width = 10
    /\ resolved.width = IntV(10) /\ resolved.x = IntV(3)
    /\ IsNone(base.y) /\ base.height = IntV(10) /\ constraints.height = 24
    /\ resolved.y = IntV(7)

\* C16: in a parent of positive width and height the resolved width and
\* height are positive: an absent width resolves to constraints.width, and
\* so does a present width that is zero or negative or has no room left
\* (base.x >= constraints.width); the same for height.
C16_NeverZeroSize ==
    (resolved # Unresolved /\ constraints.width > 0 /\ constraints.height > 0) =>
       /\ Scaled(resolved.width) > 0
       /\ Scaled(resolved.height) > 0
       /\ IsNone(base.width) => resolved.width = IntV(constraints.width)
       /\ IsNone(base.height) => resolved.height = IntV(constraints.height)
       /\ (~IsNone(base.width) /\ (Scaled(base.width) <= 0 \/ RoomX <= 0))
             => resolved.width = IntV(constraints.width)
       /\ (~IsNone(base.height) /\ (Scaled(base.height) <= 0 \/ RoomY <= 0))
             => resolved.height = IntV(constraints.height)

\* C16 witness: a width of 2 asked for at an x beyond the parent's width
\* resolves to the parent's width
C16_NoRoomFallsBack ==
    /\ base.x = IntV(MaxCoord + 1) /\ base.width = IntV(2)
    /\ constraints.width = MaxCoord
    /\ resolved.width = IntV(MaxCoord)

\* C17: every field of an OffsetDimensions is base.field + offsets.field
\* when base.field is present and absent when base.field is absent,
\* whatever the sign of the offset.
C17_OffsetProjection ==
    projected # Unresolved =>
       \A f \in {"x", "y", "width", "height"} :
          IF IsNone(base[f]) THEN IsNone(projected[f])
          ELSE /\ projected[f].t = base[f].t
               /\ Scaled(projected[f]) = Scaled(base[f]) + offsets[f] * Den

\* C17 witness: base (x=2, width absent) with offsets (x=-1, width=3)
\* projects to x = 1 with the width still absent
C17_AbsentStaysAbsent ==
    /\ projected # Unresolved
    /\ base.x = IntV(2) /\ IsNone(base.width)
    /\ offsets.x = -1 /\ offsets.width = 3
    /\ projected.x = IntV(1) /\ IsNone(projected.width)

(***************************************************************************)
(* Properties of the text window (SpecText, SpecFixed)                     *)
(***************************************************************************)
total_lines == Len(tw.lines)

visible_height == ContentHeight(tw)

\* C2: after any interleaving of scroll keys and resizes (those that
\* return), 0 <= scroll <= max(0, total_lines - visible_height).
C2_ScrollInRange ==
    last_op # "resize_raised" =>
       /\ 0 <= tw.scroll
       /\ tw.scroll <= Max2(0, total_lines - visible_height)

\* C3 as stated: with the terminal fixed, scroll never exceeds
\* total_lines - visible_height and never goes below 0.
C3_ScrollBoundsLiteral ==
    /\ tw.scroll <= total_lines - visible_height
    /\ tw.scroll >= 0

\* C3 as amended: with the terminal fixed, scroll never exceeds
\* max(0, total_lines - visible_height), which is total_lines -
\* visible_height whenever the text overflows, and never goes below 0.
C3_ScrollBounds ==
    /\ tw.scroll <= Max2(0, total_lines - visible_height)
    /\ tw.scroll >= 0

\* C3 witness: an overflowing text scrolled by keys down to the last page
C3_ScrolledToBottom ==
    /\ last_op = "key"
    /\ total_lines > visible_height
    /\ tw.scroll = total_lines - visible_height

SizedByResize == last_op \in {"init", "resize"}

\* C5 as stated: after handle_resize, on every terminal and for every
\* text, 10 <= width <= floor(0.9 * terminal width) and 6 <= height <=
\* floor(0.9 * terminal height); empty text gives one line and the
\* minimum size.
C5_SizeLiteral ==
    SizedByResize =>
       LET p == Position(tw)
       IN  /\ 10 <= p.width.v /\ p.width.v <= NineTenths(tw.term.width)
           /\ 6 <= p.height.v /\ p.height.v <= NineTenths(tw.term.height)
           /\ tw.text = <<>> =>
                 total_lines >= 1 /\ p.width.v = 10 /\ p.height.v = 6

\* a terminal on which the minimum size does not exceed nine tenths of it
RoomForMinimum ==
    NineTenths(tw.term.width) >= 10 /\ NineTenths(tw.term.height) >= 6

\* C5 as amended: the same bounds for a centred window (x and y absent) on
\* a terminal with floor(0.9 * width) >= 10 and floor(0.9 * height) >= 6.
C5_SizeWithinBounds ==
    (SizedByResize /\ RoomForMinimum /\ IsNone(tw.base.x) /\ IsNone(tw.base.y)) =>
       LET p == Position(tw)
       IN  /\ 10 <= p.width.v /\ p.width.v <= NineTenths(tw.term.width)
           /\ 6 <= p.height.v /\ p.height.v <= NineTenths(tw.term.height)
           /\ tw.text = <<>> =>
                 total_lines >= 1 /\ p.width.v = 10 /\ p.height.v = 6

\* C5 witness: a resize after which the text fills the window up to nine
\* tenths of the terminal height, above the minimum
C5_ResizedToCeiling ==
    /\ last_op = "resize" /\ RoomForMinimum
    /\ IsNone(tw.base.x) /\ IsNone(tw.base.y)
    /\ Position(tw).height.v = NineTenths(tw.term.height)
    /\ Position(tw).height.v > 6

\* C6: after keys and resizes followed by draw(), scroll_pos is absent
\* exactly when total_lines <= visible_height and is otherwise a fraction
\* n / d with 0 <= n / d <= 1.
C6_ScrollPosAfterDraw ==
    last_op = "draw" =>
       /\ (tw.scroll_pos = <<>>) <=> (total_lines <= visible_height)
       /\ tw.scroll_pos # <<>> =>
             0 <= tw.scroll_pos[1] /\ tw.scroll_pos[1] <= tw.scroll_pos[2]

(***************************************************************************)
(* Properties of the controller (Spec)                                     *)
(***************************************************************************)
\* C4: with N Window / TextWindow objects pushed, run() pops exactly one
\* window per escape delivered, returns with an empty stack after the N-th,
\* and never ends after fewer than N escapes, whatever other keys, empty
\* polls and resize notifications come in between.
C4_EscapesEmptyStack ==
    ~extended =>
       /\ pc # "raised"
       /\ pc = "returned" => ghost.escapes = ghost.started /\ window_stack = <<>>
       /\ (Running /\ pc # "dispatch") =>
             Len(window_stack) = ghost.started - ghost.escapes

\* the content rectangle the border flag calls for
BorderInset(w) ==
    LET p == Position(w)
    IN  IF w.border
        THEN Rect(NumAdd(p.x, IntV(1)), NumAdd(p.y, IntV(1)),
                  NumSub(p.width, IntV(2)), NumSub(p.height, IntV(2)))
        ELSE p

\* C7: the content rectangle of every window on the stack is its resolved
\* position plus (1, 1, -2, -2) when bordered and the position itself when
\* not; a bordered 50x20 window on an 80x24 terminal has content
\* (x+1, y+1, 48, 18).
C7_ContentIsInsetPosition ==
    \A i \in DOMAIN window_stack :
       LET w == window_stack[i]
       IN  /\ Content(w) = BorderInset(w)
           /\ (w.border /\ Position(w).width = IntV(50) /\ Position(w).height = IntV(20))
                 => Content(w).width = IntV(48) /\ Content(w).height = IntV(18)

\* C7 witness: the bordered 50x20 window, bound to the 80x24 terminal by a
\* resize drain that has just run, with content (16, 3, 48, 18)
C7_Bordered50x20 ==
    /\ pc = "drain_redraw"
    /\ \E i \in DOMAIN window_stack :
          /\ window_stack[i].border
          /\ window_stack[i].term = Terminal(80, 24)
          /\ Position(window_stack[i]) = Rect(IntV(15), IntV(2), IntV(50), IntV(20))
          /\ Content(window_stack[i]) = Rect(IntV(16), IntV(3), IntV(48), IntV(18))

\* C8: whenever a pop removes the top window and a window remains, the new
\* top has its redraw flag set right after the pop.
C8_PopMarksParent ==
    [][(Len(window_stack') = Len(window_stack) - 1 /\ window_stack' # <<>>)
          => Top(window_stack').redraw]_vars

\* C8 witness: a pop has just uncovered a window whose redraw flag was clear
C8_UncoveredWasClear ==
    /\ ghost.covered = "clear"
    /\ window_stack # <<>>
    /\ Top(window_stack).redraw

\* C9: run() on an empty stack fails at once: no terminal mode is entered,
\* nothing is polled or drawn, and the stack, the resize-pending flag and
\* the terminal handle are as they were.
C9_RunEmptyFailsAtOnce ==
    /\ [](pc = "config_error" =>
            mode = {} /\ window_stack = <<>> /\ ~ghost.polled /\ ~ghost.drew)
    /\ [][(pc # "config_error" /\ pc' = "config_error") =>
            UNCHANGED <<term, window_stack, resize_pending, mode, ghost>>]_vars

\* C9 witness: run() has failed on an empty stack with a resize still pending
C9_ConfigErrorReached ==
    pc = "config_error" /\ window_stack = <<>> /\ resize_pending

\* C10: the terminal modes are held exactly while run() is inside its loop
\* and are released however it ends: by the stack becoming empty or by a
\* failure of an input handler, a draw, a tick, on_tick or the resize drain.
C10_ModeHeldWhileRunning ==
    /\ Running => mode = AllModes
    /\ ~Running => mode = {}

\* C10 witness: run() ended by a failure of the resize drain, modes released
C10_RaisedAndReleased ==
    pc = "raised" /\ ghost.raised_by = "resize" /\ mode = {}

\* keys that are neither escape nor one of the four scroll keys
OtherKeys == {"KEY_ENTER", "KEY_TAB", "KEY_HOME", "x"}

\* C11: for a Window and for a TextWindow, in every state (text
\* overflowing or not, at any scroll offset), handle_input of an escape key
\* sets closed, and handle_input of a key that is neither escape nor a
\* scroll key leaves closed, scroll, child and redraw as they were.
C11_EscapeClosesOthersIgnored ==
    \A i \in DOMAIN window_stack :
       LET w == window_stack[i]
       IN  w.kind \in {"Window", "TextWindow"} =>
              /\ handle_input(w, "KEY_ESCAPE").closed
              /\ \A k \in OtherKeys :
                    LET v == handle_input(w, k)
                    IN  /\ v.closed = w.closed /\ v.scroll = w.scroll
                        /\ v.child = w.child /\ v.redraw = w.redraw

\* C11 witness: run() has just handed KEY_ENTER to a TextWindow whose text
\* overflows and which is scrolled down and drawn: it is still open, still
\* scrolled and still not marked for redraw
C11_EnterLeftScrolledTextAlone ==
    /\ pc = "redraw"
    /\ ghost.called.op = "handle_input" /\ ghost.called.key = "KEY_ENTER"
    /\ ghost.called.on = Len(window_stack)
    /\ Top(window_stack).kind = "TextWindow"
    /\ Len(Top(window_stack).lines) > ContentHeight(Top(window_stack))
    /\ Top(window_stack).scroll > 0
    /\ ~Top(window_stack).closed /\ ~Top(window_stack).redraw

C19_OnlyTopIsCalled ==
    /\ pc = "dispatch" => window = Len(window_stack) /\ window > 0
    /\ ghost.called.op \in {"handle_input", "tick"} =>
          ghost.called.on = ghost.called.depth /\ ghost.called.on > 0

\* C19 witness: after a resize drain and a key that closed the modal child,
\* tick() goes to the window the pop uncovered, now the top
C19_TickAfterPopGoesToNewTop ==
    /\ pc = "on_tick"
    /\ ghost.covered # "none"
    /\ ghost.called = Call("tick", 1, 1, "")
    /\ Len(window_stack) = 1
    /\ Top(window_stack).term = Terminal(12, 6)

\* C20 as stated: when a dispatched key closes the topmost window the
\* controller pops it and goes straight to the next iteration: in the same
\* iteration no window is drawn and neither tick() nor on_tick is called,
\* also when a window remains.
C20_PopSkipsIterationLiteral ==
    [][(pc = "dispatch" /\ Len(window_stack') = Len(window_stack) - 1) =>
          pc' \in {"loop_top", "returned"}]_vars

\* C20 as amended: when a dispatched key closes the topmost window the
\* controller pops it; if the stack is then empty run() returns at once,
\* with no draw, tick() or on_tick; if a window remains the same iteration
\* goes on: the uncovered window, marked for redraw by the pop, is drawn
\* (unless its draw fails), then its tick() and then on_tick are called.
C20_PopGoesOnToRedrawAndTick ==
    [][/\ (pc = "dispatch" /\ Len(window_stack') = Len(window_stack) - 1) =>
             IF window_stack' = <<>>
             THEN pc' = "returned" /\ ghost'.called.op = "handle_input"
             ELSE pc' = "redraw" /\ Top(window_stack').redraw
       /\ (ghost'.covered # "none" /\ pc' = "tick") =>
             /\ ghost'.called =
                   Call("draw", Len(window_stack'), Len(window_stack'), "")
             /\ ~Top(window_stack').redraw
       /\ (ghost'.covered # "none" /\ pc' = "on_tick") =>
             ghost'.called =
                Call("tick", Len(window_stack'), Len(window_stack'), "")]_vars

\* C20 witness: the iteration in which escape closed the top window has
\* drawn the uncovered window and called tick() and on_tick
C20_SameIterationDrewAndTicked ==
    /\ pc = "loop_top"
    /\ ghost.covered = "clear"
    /\ ghost.called.op = "on_tick"
    /\ window_stack # <<>>
    /\ ~Top(window_stack).redraw

\* C21: a dispatched key that leaves the top window open with a child
\* makes, within that dispatch, the child the new top and the parent's
\* child slot absent; no window on the stack ever holds a child.
C21_ChildPushedAndCleared ==
    [][/\ (pc = "dispatch" /\ pc' \notin {"dispatch", "raised"}) =>
             LET w1 == stack_handle_input(window_stack[window], inkey)
             IN  (~w1.closed /\ w1.child # <<>>) =>
                    /\ Len(window_stack') = Len(window_stack) + 1
                    /\ Top(window_stack') =
                          [SetTerm(w1.child[1], term) EXCEPT !.redraw = TRUE,
                                                             !.controller = TRUE]
                    /\ window_stack'[window].child = <<>>
       /\ \A i \in DOMAIN window_stack' : window_stack'[i].child = <<>>]_vars

\* C21 witness: KEY_ENTER has just made the bottom window open a modal
\* child: the child is the top and the parent's slot is empty again
C21_ChildOnTopSlotEmpty ==
    /\ pc = "redraw"
    /\ ghost.called = Call("handle_input", 1, 1, "KEY_ENTER")
    /\ Len(window_stack) = 2
    /\ window_stack[1].kind = "Custom" /\ window_stack[1].child = <<>>
    /\ Top(window_stack).kind = "Window" /\ Top(window_stack).controller

\* a window laid out for its own terminal handle: constraints (0, 0, width,
\* height) of it and, for a text window, lines and size recomputed for it
LaidOut(w) ==
    /\ w.constraints = Rect(0, 0, w.term.width, w.term.height)
    /\ [handle_resize(w) EXCEPT !.redraw = w.redraw] = w

DrainStarts == pc = "loop_top" /\ pc' \notin {"loop_top", "returned"}

DrainEnds == pc = "drain_redraw" /\ pc' = "poll"

C23_FlagCoalesces ==
    [][/\ resize_pending' <=> ghost'.notes >= 1
       /\ (resize_pending /\ ~resize_pending') =>
             /\ pc = "drain_clear" /\ pc' = "drain_rebind"
             /\ ghost'.coalesced = ghost.notes /\ ghost'.coalesced >= 1
       /\ DrainStarts => (pc' = "drain_clear" <=> resize_pending)
       /\ (pc' = "drain_clear" /\ pc # "drain_clear") => pc = "loop_top"]_vars

\* C23 witness: one drain under way has taken up two or more notifications
\* and cleared the flag
C23_TwoNotificationsOneDrain ==
    /\ pc = "drain_rebind"
    /\ ghost.coalesced = MaxNotes
    /\ ghost.notes = 0 /\ ~resize_pending

\* the window hooks and the on_tick hook a user may override
Hooks == {"handle_input", "draw", "tick", "on_tick"}

\* the state a notification is to lead to: run() not entered, or over by
\* its stack becoming empty or by a failing user hook, or running with no
\* notification pending and every window bound to the current terminal
C24_Settled ==
    \/ pc \in {"setup", "config_error", "returned"}
    \/ pc = "raised" /\ ghost.raised_by \in Hooks
    \/ /\ Running /\ ~resize_pending
       /\ \A i \in DOMAIN window_stack : window_stack[i].term = term

\* C24: no notification is lost: wherever in the loop it arrives, unless
\* notifications go on arriving for ever, a drain completes after which
\* every window on the stack is bound to the terminal of the latest one.
C24_NoNotificationLost ==
    \/ []<><<term' # term>>_vars
    \/ <>[]C24_Settled

\* C25: between a notification and the end of the drain that re-binds the
\* stack no window is drawn: whenever draw() is called, no notification is
\* pending and every window is bound to the current terminal.
C25_NoDrawBeforeRebind ==
    [][(pc \in {"initial_redraw", "redraw"} /\ pc' # pc
          /\ ghost'.called.op = "draw") =>
             /\ ~resize_pending
             /\ \A i \in DOMAIN window_stack : window_stack[i].term = term]_vars

\* C26: draw() is called on the topmost window only, and only when its
\* redraw flag is set or the redraw is forced (loop entry, resize drain);
\* every draw leaves the flag cleared; with the flag clear the unforced
\* redraw of an iteration draws nothing.
C26_RedrawDiscipline ==
    [][/\ (pc' # pc /\ ghost'.called.op = "draw") =>
             /\ \/ pc \in {"initial_redraw", "drain_redraw"}
                \/ pc = "redraw" /\ Top(window_stack).redraw
             /\ ghost'.called.on = Len(window_stack')
             /\ ~Top(window_stack').redraw
             /\ SubSeq(window_stack', 1, Len(window_stack) - 1)
                   = SubSeq(window_stack, 1, Len(window_stack) - 1)
       /\ (pc = "redraw" /\ pc' # pc /\ window_stack # <<>>
             /\ ~Top(window_stack).redraw) =>
             ghost'.called = NoCall /\ window_stack' = window_stack]_vars

\* C26 witness: an iteration's redraw step has found the flag of the
\* already drawn top window clear and drawn nothing
C26_NothingToDraw ==
    /\ pc = "tick"
    /\ ghost.called = NoCall /\ ghost.drew
    /\ ~Top(window_stack).redraw

\* C27: run() is in its loop only while the stack is non-empty, and it
\* returns right from the dispatch that popped the last window: the last
\* call made is that input handler, with no poll, draw, tick, on_tick or
\* drain after it; it never returns with a window on the stack.
C27_ReturnsWhenEmpty ==
    /\ Running => window_stack # <<>>
    /\ pc = "returned" =>
          /\ window_stack = <<>>
          /\ ghost.called.op = "handle_input"
          /\ ghost.called.depth = 1

\* C27 witness: run() has returned from the escape that closed the last
\* of two windows, leaving a resize notification undrained
C27_ReturnedWithResizePending ==
    /\ pc = "returned" /\ ghost.started = 2
    /\ ghost.called = Call("handle_input", 1, 1, "KEY_ESCAPE")
    /\ resize_pending

\* C28: with no key ever arriving and the stack non-empty, run() calls
\* tick() on the top window and on_tick again and again for ever (unless
\* run() is never entered or a user hook fails).
C28_KeepsTicking ==
    \/ [](pc = "setup")
    \/ <>(pc \in {"config_error", "returned"})
    \/ <>(pc = "raised" /\ ghost.raised_by \in Hooks)
    \/ <>(inkey # "")
    \/ /\ []<>(ghost.called.op = "tick")
       /\ []<>(ghost.called.op = "on_tick")

\* C29: once the topmost window's closed flag is set during run(), the
\* controller eventually pops it (or run() ends), whether or not another
\* key arrives.
C29_ClosedIsPopped ==
    [](( /\ Running /\ window_stack # <<>>
         /\ Top(window_stack).closed) =>
          <>( \/ ~Running
              \/ window_stack = <<>>
              \/ ~Top(window_stack).closed ))

\* the four scroll keys
ScrollKeys == {"KEY_DOWN", "KEY_UP", "KEY_PGDOWN", "KEY_PGUP"}

\* the scroll offset C30 gives for a key, with h the visible height and
\* m = total_lines - h
ScrollTarget(k, scroll, h, m) ==
    CASE k = "KEY_DOWN"   -> Min2(scroll + 1, m)
      [] k = "KEY_UP"     -> Max2(scroll - 1, 0)
      [] k = "KEY_PGDOWN" -> Min2(scroll + h, m)
      [] k = "KEY_PGUP"   -> Max2(scroll - h, 0)

\* C30: with h = visible_height and m = total_lines - h, when total_lines
\* > h the keys down, up, page-down, page-up set scroll to min(scroll+1, m),
\* max(scroll-1, 0), min(scroll+h, m), max(scroll-h, 0) and set the redraw
\* flag exactly when scroll changed; when total_lines <= h they change
\* neither scroll nor the redraw flag.
C30_ScrollKeyTransition ==
    last_op # "resize_raised" =>
       \A k \in ScrollKeys :
          LET h == visible_height
              m == total_lines - h
              v == handle_input(tw, k)
          IN  /\ total_lines > h =>
                    /\ v.scroll = ScrollTarget(k, tw.scroll, h, m)
                    /\ v.scroll # tw.scroll => v.redraw
                    /\ v.scroll = tw.scroll => v.redraw = tw.redraw
              /\ total_lines <= h =>
                    v.scroll = tw.scroll /\ v.redraw = tw.redraw

\* C31: whenever a bordered window has been drawn with scroll_pos present,
\* exactly one content row, the row floor(scroll_pos * content_height),
\* which lies in 0 .. content_height - 1, shows the scrollbar thumb, for
\* every scroll offset from 0 up to and including the maximum; with
\* scroll_pos absent no row shows the thumb.
C31_ExactlyOneThumbRow ==
    (last_op = "draw" /\ tw.border) =>
       IF tw.scroll_pos # <<>>
       THEN /\ scroll_row(tw).v \in 0 .. ContentHeight(tw) - 1
            /\ thumb_rows(tw) = {scroll_row(tw).v}
       ELSE thumb_rows(tw) = {}

====
